---- MODULE Spec2Model ----
(***************************************************************************)
(* OSEAN-KG: loading tabular experiment data and the Vaccine Ontology into *)
(* a labelled property graph (Import_to_neo4j.py), then normalising ids,   *)
(* mapping domain nodes to ontology Resources and renaming Resource        *)
(* properties (ontology_mapping.py).                                       *)
(*                                                                         *)
(* The graph is a sequence of nodes (label, properties) and a bag of typed *)
(* directed edges.  A property that is absent is Cypher's null: props is a *)
(* function whose domain is the set of properties the node has.  Strings   *)
(* are TLA+ strings; Cypher's string functions are modelled by what they   *)
(* compute.                                                                *)
(***************************************************************************)
EXTENDS Integers, Sequences, FiniteSets, Bags, TLC

VARIABLES
    nodes,        \* the graph's nodes: Seq([label, props])
    edges,        \* the graph's relationships: a bag of <<type, src, dst>>
    constraints,  \* uniqueness constraints in force: a set of <<label, field>>
    csv,          \* the input files: label -> set of rows
    owl,          \* the remote ontology document: the set of Resource records it yields
    graphConfig,  \* n10s _GraphConfig state: "none", "stale" or "init"
    pc,           \* position of the running entry point
    faults,       \* the queries that raise when they are run (the environment)
    calls,        \* the operations and entry points invoked so far, in order
    out           \* what the last invocation printed: errors, counts, completions

vars == <<nodes, edges, constraints, csv, owl, graphConfig, pc, faults, calls, out>>

-----------------------------------------------------------------------------
(* Bounds of the model *)

\* entity nodes in an initial graph
MaxEntities == 2
\* Resource nodes in an initial graph
MaxResources == 2
\* invocations of an operation or entry point in one behaviour
MaxCalls == 2

-----------------------------------------------------------------------------
(* Cypher string functions *)

\* s STARTS WITH p
StartsWith(s, p) == Len(s) >= Len(p) /\ SubSeq(s, 1, Len(p)) = p

\* substring(s, start): the rest of s from the 0-based index start
substring(s, start) == IF start >= Len(s) THEN "" ELSE SubSeq(s, start + 1, Len(s))

\* toString(v) of a value loaded from CSV, which is already a string
toString(v) == v

\* the index of the last occurrence of character c in s at or before i, 0 if none
RECURSIVE LastIndexOf(_, _, _)
LastIndexOf(s, c, i) ==
    IF i = 0 THEN 0
    ELSE IF SubSeq(s, i, i) = c THEN i
    ELSE LastIndexOf(s, c, i - 1)

\* last(split(s, '/'))
LastSplit(s) == substring(s, LastIndexOf(s, "/", Len(s)))

\* replace(s, from, to) for single characters
RECURSIVE replace(_, _, _)
replace(s, from, to) ==
    IF s = "" THEN ""
    ELSE (IF SubSeq(s, 1, 1) = from THEN to ELSE SubSeq(s, 1, 1))
         \o replace(substring(s, 1), from, to)

-----------------------------------------------------------------------------
(* Property access *)

\* n.f IS NOT NULL
Has(n, f) == f \in DOMAIN n.props

\* n.f IS NOT NULL AND n.f <> ''
NonEmpty(n, f) == Has(n, f) /\ n.props[f] # ""

\* SET n.f = v, where v may be null: map is a function field -> value and
\* absent(f) tells that the value assigned to f is null (removes the property)
SetProps(props, map, absent) ==
    [f \in (DOMAIN props \cup DOMAIN map) \ absent |->
        IF f \in DOMAIN map THEN map[f] ELSE props[f]]

NodeIds == DOMAIN nodes

Labelled(ns, l) == {i \in DOMAIN ns : ns[i].label = l}

\* CREATE in place of MERGE: an edge is added for every pair, whatever exists
CreateEdges(es, type, pairs) ==
    es (+) SetToBag({<<type, p[1], p[2]>> : p \in pairs})

\* MERGE (a)-[:type]->(b) for every pair of a set: an edge is created only
\* where none of that type exists between the pair
MergeEdges(es, type, pairs) ==
    es (+) SetToBag({<<type, p[1], p[2]>> : p \in {q \in pairs : ~BagIn(<<type, q[1], q[2]>>, es)}})

-----------------------------------------------------------------------------
(* The coded ontology properties and their readable names *)

\* <<coded, readable>>: the SET list of update_resource_properties; the
\* mapper copies the same coded properties to "vo_" + readable
CodedProps ==
    << <<"IAO_0000111", "editor_preferred_label">>,
       <<"IAO_0000112", "example_of_usage">>,
       <<"IAO_0000114", "has_curation_status">>,
       <<"IAO_0000115", "definition">>,
       <<"IAO_0000116", "editor_note">>,
       <<"IAO_0000117", "term_editor">>,
       <<"IAO_0000118", "alternative_term">>,
       <<"IAO_0000119", "definition_source">>,
       <<"IAO_0000232", "curator_note">>,
       <<"IAO_0000233", "term_tracker_item">>,
       <<"IAO_0000412", "imported_from">>,
       <<"VO_0001818", "violin_vaccine_id">>,
       <<"VO_0003099", "trade_name">>,
       <<"VO_0003160", "fda_vaccine_indications">>,
       <<"VO_0003161", "vaccine_package_insert_pdf_url">>,
       <<"VO_0003162", "vaccine_stn">>,
       <<"UBPROP_0000008", "taxon_notes">>,
       <<"UBPROP_0000001", "external_definition">>,
       <<"UBPROP_0000002", "axiom_lost_from_external_ontology">>,
       <<"UBPROP_0000003", "homology_notes">> >>

CodedNames == {CodedProps[k][1] : k \in DOMAIN CodedProps}
ReadableNames == {CodedProps[k][2] : k \in DOMAIN CodedProps}
CodedOf(readable) == (CHOOSE k \in DOMAIN CodedProps : CodedProps[k][2] = readable)

-----------------------------------------------------------------------------
(* Ontology Mapper: map_ontology and its rules *)

\* map_experiment_nodes: the query's literals
experiment_mapping ==
    [name |-> "experiment_type_id", label |-> "Experiment", prop |-> "experiment_type_id",
     rel |-> "VO_REPRESENTATION", prefix |-> "exp_type_", start |-> 9,
     colon |-> FALSE, copy |-> TRUE]

\* map_intervention_nodes: mappings, in the dictionary's order
intervention_mappings ==
    << [prop |-> "intervention_type_id", rel |-> "HAS_TYPE", prefix |-> "int_type_"],
       [prop |-> "material_id", rel |-> "USES_MATERIAL", prefix |-> "mat_"],
       [prop |-> "intervention_route_id", rel |-> "HAS_ROUTE", prefix |-> "route_"],
       [prop |-> "dosage_unit_id", rel |-> "HAS_DOSAGE_UNIT", prefix |-> "dosage_"] >>

\* the query built for one entry of mappings: substring(..., len(prefix) + 1)
InterventionRule(m) ==
    [name |-> m.prop, label |-> "Intervention", prop |-> m.prop, rel |-> m.rel,
     prefix |-> m.prefix, start |-> Len(m.prefix) + 1, colon |-> FALSE, copy |-> FALSE]

\* map_material_nodes: the query's literals
material_mapping ==
    [name |-> "material_name_id", label |-> "Material", prop |-> "material_name_id",
     rel |-> "VO_REPRESENTATION", prefix |-> "mat_name_", start |-> 10,
     colon |-> FALSE, copy |-> TRUE]

\* map_organism_nodes: mappings
organism_mappings ==
    << [prop |-> "species_id", rel |-> "IS_SPECIES", prefix |-> "species_"] >>

\* the query without the '_' -> ':' comparison
OrganismRulePlainOnly(m) ==
    [name |-> m.prop, label |-> "Organism", prop |-> m.prop, rel |-> m.rel,
     prefix |-> m.prefix, start |-> Len(m.prefix) + 1, colon |-> FALSE, copy |-> FALSE]

\* the query built for one entry: both the plain and the '_' -> ':' comparison
OrganismRule(m) ==
    [name |-> m.prop, label |-> "Organism", prop |-> m.prop, rel |-> m.rel,
     prefix |-> m.prefix, start |-> Len(m.prefix) + 1, colon |-> TRUE, copy |-> FALSE]

\* the rules in the order map_ontology runs them
MappingRules ==
    <<experiment_mapping>>
    \o [k \in DOMAIN intervention_mappings |-> InterventionRule(intervention_mappings[k])]
    \o <<material_mapping>>
    \o [k \in DOMAIN organism_mappings |-> OrganismRule(organism_mappings[k])]

RuleNames == {MappingRules[k].name : k \in DOMAIN MappingRules}

\* CASE WHEN v STARTS WITH prefix THEN substring(v, start) ELSE v END
CandidateKey(v, r) == IF StartsWith(v, r.prefix) THEN substring(v, r.start) ELSE v

\* the WHERE clause joining an entity node n to a Resource node res
RuleMatches(n, res, r) ==
    /\ n.label = r.label
    /\ NonEmpty(n, r.prop)
    /\ res.label = "Resource"
    /\ Has(res, "uri")
    /\ \/ LastSplit(res.props["uri"]) = CandidateKey(n.props[r.prop], r)
       \/ /\ r.colon
          /\ LastSplit(res.props["uri"]) = replace(CandidateKey(n.props[r.prop], r), "_", ":")

\* the rows of the two MATCH clauses: <<entity, resource>>
MatchRows(ns, r) ==
    {p \in (DOMAIN ns) \X (DOMAIN ns) : RuleMatches(ns[p[1]], ns[p[2]], r)}

\* SET e.vo_representation_uri = resource.uri, e.vo_<readable> = resource.<coded>, ...
\* (a null value removes the property)
CopyResourceProps(props, res) ==
    LET target(k) == "vo_" \o CodedProps[k][2]
        present == {k \in DOMAIN CodedProps : CodedProps[k][1] \in DOMAIN res.props}
        map == [f \in {"vo_representation_uri"} \cup {target(k) : k \in present} |->
                   IF f = "vo_representation_uri" THEN res.props["uri"]
                   ELSE res.props[CodedProps[CHOOSE k \in present : target(k) = f][1]]]
    IN SetProps(props, map, {target(k) : k \in DOMAIN CodedProps \ present})

\* One rule's mapping query on graph g.  rank orders the Resource scan: where an
\* entity matches several Resources, the row processed last decides the copy.
RuleQuery(g, r, rank) ==
    LET rows == MatchRows(g.nodes, r)
        lastOf(i) == CHOOSE j \in {p[2] : p \in {q \in rows : q[1] = i}} :
                        \A p \in rows : p[1] = i => rank[p[2]] <= rank[j]
    IN [g EXCEPT
          !.nodes  = IF r.copy
                     THEN [i \in DOMAIN g.nodes |->
                             IF \E p \in rows : p[1] = i
                             THEN [g.nodes[i] EXCEPT
                                     !.props = CopyResourceProps(@, g.nodes[lastOf(i)])]
                             ELSE g.nodes[i]]
                     ELSE g.nodes,
          !.edges  = MergeEdges(g.edges, r.rel, rows),
          !.counts = [f \in DOMAIN @ \cup {r.name} |->
                         IF f = r.name THEN Cardinality(rows) ELSE @[f]]]

\* map_experiment_nodes' second query: Experiment nodes without a VO_REPRESENTATION edge
UnmappedCount(g) ==
    Cardinality({i \in Labelled(g.nodes, "Experiment") :
                    ~\E e \in BagToSet(g.edges) : e[1] = "VO_REPRESENTATION" /\ e[2] = i})

\* nothing printed yet
NoOutput == [errors |-> {}, counts |-> <<>>, done |-> {}]

\* the graph and the output a function works on; raised: an exception is propagating
Working(ns, es) ==
    [nodes |-> ns, edges |-> es, errors |-> {}, counts |-> <<>>, done |-> {}, raised |-> FALSE]

SetCount(g, name, n) ==
    [g EXCEPT !.counts = [f \in DOMAIN @ \cup {name} |-> IF f = name THEN n ELSE @[f]]]

\* the except clause that wraps one rule: the error is printed and swallowed,
\* after a failure of the Experiment mapping and of each other rule alike
RuleExceptReraise(g, r) == [g EXCEPT !.errors = @ \cup {r.name}, !.raised = TRUE]
RuleExcept(g, r) == [g EXCEPT !.errors = @ \cup {r.name}]

\* one rule inside its try block; the Experiment rule also counts the unmapped nodes
RunRule(g, r, F, rank) ==
    IF g.raised THEN g
    ELSE IF r.name \in F THEN RuleExcept(g, r)
    ELSE LET h == RuleQuery(g, r, rank)
         IN IF r.label # "Experiment" THEN h
            ELSE IF "unmapped" \in F THEN RuleExcept(h, r)
            ELSE SetCount(h, "unmapped", UnmappedCount(h))

RECURSIVE RunRules(_, _, _, _)
RunRules(g, k, F, rank) ==
    IF k > Len(MappingRules) THEN g
    ELSE RunRules(RunRule(g, MappingRules[k], F, rank), k + 1, F, rank)

\* map_ontology: the Resource count, then the four mapping functions, all
\* inside one try block whose handler prints the error
map_ontology(ns, es, F, rank) ==
    LET g0 == Working(ns, es)
        g  == RunRules(SetCount(g0, "resourceCount", Cardinality(Labelled(ns, "Resource"))),
                       1, F, rank)
    IN IF "resourceCount" \in F THEN [g0 EXCEPT !.errors = {"map_ontology"}]
       ELSE IF g.raised THEN [g EXCEPT !.raised = FALSE, !.errors = @ \cup {"map_ontology"}]
       ELSE [g EXCEPT !.done = @ \cup {"map_ontology"}]

\* the queries of map_ontology that can fail
MapperQueries == RuleNames \cup {"unmapped", "resourceCount"}

\* the orders in which a query can scan the Resource nodes
ScanOrders(ns) ==
    LET R == Labelled(ns, "Resource")
    IN {f \in [R -> 1..Cardinality(R)] : \A a, b \in R : a # b => f[a] # f[b]}

Output(g) == [errors |-> g.errors, counts |-> g.counts, done |-> g.done]

\* a call of map_ontology(driver)
MapOntologyCall ==
    /\ pc = "map_ontology"
    /\ Len(calls) < MaxCalls
    /\ \E rank \in ScanOrders(nodes) :
         LET g == map_ontology(nodes, edges, faults, rank)
         IN /\ nodes' = g.nodes
            /\ edges' = g.edges
            /\ out' = Output(g)
    /\ calls' = Append(calls, "map_ontology")
    /\ UNCHANGED <<constraints, csv, owl, graphConfig, pc, faults>>

-----------------------------------------------------------------------------
(* Graphs the mapper can be run on *)

Node(l, p) == [label |-> l, props |-> p]

\* identifier values tried for a rule with prefix p
MapperValues(p) == <<"", "AB", "A_B", p \o "AB">>

\* an entity of rule r: its label with the v-th value of its field
MapperEntity(r, v) == Node(r.label, [f \in {r.prop} |-> MapperValues(r.prefix)[v]])

\* Resources of an imported ontology: some share a URI tail, some carry coded properties
MapperResources ==
    << Node("Resource", [f \in {"uri", "IAO_0000115"} |->
                            IF f = "uri" THEN "http://o/AB" ELSE "A vaccine."]),
       Node("Resource", [f \in {"uri", "IAO_0000111"} |->
                            IF f = "uri" THEN "http://o/B" ELSE "b"]),
       Node("Resource", [f \in {"uri", "IAO_0000115"} |->
                            IF f = "uri" THEN "http://p/AB" ELSE "Another."]),
       Node("Resource", [f \in {"uri"} |-> "http://o/A:B"]),
       Node("Resource", [f \in {"uri"} |-> "http://o/A_B"]) >>

\* non-decreasing (strict: increasing) index sequences of length n over 1..m
Ascending(n, m, strict) ==
    {s \in [1..n -> 1..m] :
        \A a, b \in 1..n : a < b => (IF strict THEN s[a] < s[b] ELSE s[a] <= s[b])}

\* every rule has a matching entity
FullGraph ==
    << Node("Experiment", [f \in {"experiment_type_id"} |-> "AB"]),
       Node("Intervention", [f \in {"intervention_type_id", "material_id",
                                    "intervention_route_id", "dosage_unit_id"} |-> "AB"]),
       Node("Material", [f \in {"material_name_id"} |-> "AB"]),
       Node("Organism", [f \in {"species_id"} |-> "AB"]),
       MapperResources[1] >>

Idle ==
    /\ constraints = {}
    /\ csv = <<>>
    /\ owl = {}
    /\ graphConfig = "none"
    /\ calls = <<>>
    /\ out = NoOutput

InitMapper ==
    /\ Idle
    /\ edges = EmptyBag
    /\ pc = "map_ontology"
    /\ \/ /\ faults = {}
          /\ \E n \in 0..MaxEntities, m \in 0..MaxResources, j \in DOMAIN MappingRules :
               \E e \in Ascending(n, Len(MapperValues("")), TRUE),
                  r \in Ascending(m, Len(MapperResources), TRUE) :
                 nodes = [k \in 1..n |-> MapperEntity(MappingRules[j], e[k])]
                         \o [k \in 1..m |-> MapperResources[r[k]]]
       \/ /\ faults \in SUBSET MapperQueries
          /\ nodes = FullGraph

SpecMapper == InitMapper /\ [][MapOntologyCall]_vars

-----------------------------------------------------------------------------
(* Properties of the Ontology Mapper *)

\* an identifier with the rule's known prefix removed when present
Deprefixed(v, p) == IF StartsWith(v, p) THEN substring(v, Len(p)) ELSE v

UriTail(j) == LastSplit(nodes[j].props["uri"])

\* the mapper has run and no query of it failed
MapperRanClean == Len(calls) > 0 /\ out.errors = {} /\ "map_ontology" \in out.done

\* C1: for every mapping rule with known prefix p, an entity whose identifier
\* is p followed by key k, with exactly one Resource whose URI tail is k, has
\* after the mapper ran exactly one edge of the rule's type to that Resource.
C1_PrefixedIdLinked ==
    MapperRanClean =>
        \A k \in DOMAIN MappingRules :
            LET r == MappingRules[k]
            IN \A i \in Labelled(nodes, r.label) :
                 (NonEmpty(nodes[i], r.prop) /\ StartsWith(nodes[i].props[r.prop], r.prefix)) =>
                    LET R == {j \in Labelled(nodes, "Resource") :
                                 UriTail(j) = Deprefixed(nodes[i].props[r.prop], r.prefix)}
                    IN Cardinality(R) = 1 =>
                         \A j \in R : CopiesIn(<<r.rel, i, j>>, edges) = 1

\* C2: an edge of a mapping rule from entity n to Resource r exists only if
\* n's identifier, with the rule's prefix removed when present, equals the
\* final '/'-segment of r.uri.
C2_EdgeOnlyIfTailEqual ==
    \A k \in DOMAIN MappingRules :
        LET r == MappingRules[k]
        IN \A i \in Labelled(nodes, r.label), j \in Labelled(nodes, "Resource") :
             BagIn(<<r.rel, i, j>>, edges) =>
                /\ Has(nodes[i], r.prop)
                /\ Deprefixed(nodes[i].props[r.prop], r.prefix) = UriTail(j)

\* C8: whatever rules fail, every rule that did not fail was executed (its
\* count was returned) and each pair it matches is linked by its edge.
C8_RulesIndependent ==
    (Len(calls) > 0 /\ "resourceCount" \notin faults) =>
        \A k \in DOMAIN MappingRules :
            LET r == MappingRules[k]
            IN r.name \notin out.errors =>
                 /\ r.name \in DOMAIN out.counts
                 /\ \A p \in MatchRows(nodes, r) : CopiesIn(<<r.rel, p[1], p[2]>>, edges) = 1

\* the first rule failed, the last one ran and linked its Organism
C8_Witness ==
    /\ Len(calls) > 0
    /\ out.errors = {"experiment_type_id", "material_id"}
    /\ "species_id" \in DOMAIN out.counts
    /\ \E i \in Labelled(nodes, "Organism"), j \in Labelled(nodes, "Resource") :
         BagIn(<<"IS_SPECIES", i, j>>, edges)

-----------------------------------------------------------------------------
(* ID Normalizer: add_id_prefixes *)

\* prefix_mappings, in the dictionary's order: <<field, prefix>>
prefix_mappings ==
    << <<"organism_id", "org_">>,
       <<"experiment_id", "exp_">>,
       <<"intervention_id", "int_">>,
       <<"material_id", "mat_">>,
       <<"sample_id", "sam_">>,
       <<"assay_id", "asy_">>,
       <<"analysis_id", "ana_">> >>

\* the labels updated for each field, in the order of the seven queries
PrefixedLabels ==
    <<"Organism", "Sample", "Analysis", "Assay", "Experiment", "Intervention", "Material">>

PrefixOf(field) == (CHOOSE k \in DOMAIN prefix_mappings : prefix_mappings[k][1] = field)

PrefixQueryName(label, field) == label \o "." \o field

\* the queries of add_id_prefixes in execution order: <<label, field, prefix>>
PrefixQueries ==
    [k \in 1..(Len(prefix_mappings) * Len(PrefixedLabels)) |->
        LET m == prefix_mappings[((k - 1) \div Len(PrefixedLabels)) + 1]
        IN <<PrefixedLabels[((k - 1) % Len(PrefixedLabels)) + 1], m[1], m[2]>>]

\* WHERE n.field IS NOT NULL AND n.field <> '' AND NOT n.field STARTS WITH prefix
NeedsPrefixUnguarded(n, field, prefix) == NonEmpty(n, field)
NeedsPrefix(n, field, prefix) == NonEmpty(n, field) /\ ~StartsWith(n.props[field], prefix)

\* a database that enforces no constraint
ViolatesUniqueNever(ns, cs) == FALSE

\* a uniqueness constraint of cs does not hold of the nodes ns
ViolatesUnique(ns, cs) ==
    \E c \in cs : \E i, j \in Labelled(ns, c[1]) :
        /\ i # j
        /\ Has(ns[i], c[2]) /\ Has(ns[j], c[2])
        /\ ns[i].props[c[2]] = ns[j].props[c[2]]

\* one query: SET n.field = prefix + toString(n.field) on the nodes of one label.
\* The query raises when it is faulty or when the write breaks a uniqueness
\* constraint; a query that raises changes nothing.
PrefixQuery(g, q, F, cs) ==
    IF g.raised THEN g
    ELSE LET hit == {i \in Labelled(g.nodes, q[1]) : NeedsPrefix(g.nodes[i], q[2], q[3])}
             ns  == [i \in DOMAIN g.nodes |->
                        IF i \in hit
                        THEN [g.nodes[i] EXCEPT !.props[q[2]] = q[3] \o toString(@)]
                        ELSE g.nodes[i]]
         IN IF PrefixQueryName(q[1], q[2]) \in F \/ (hit # {} /\ ViolatesUnique(ns, cs))
            THEN [g EXCEPT !.raised = TRUE]
            ELSE IF hit = {} THEN g
            ELSE SetCount([g EXCEPT !.nodes = ns], PrefixQueryName(q[1], q[2]), Cardinality(hit))

RECURSIVE RunPrefixQueries(_, _, _, _)
RunPrefixQueries(g, k, F, cs) ==
    IF k > Len(PrefixQueries) \/ g.raised THEN g
    ELSE RunPrefixQueries(PrefixQuery(g, PrefixQueries[k], F, cs), k + 1, F, cs)

\* add_id_prefixes: all queries inside one try block
add_id_prefixes(ns, es, F, cs) ==
    LET g == RunPrefixQueries(Working(ns, es), 1, F, cs)
    IN IF g.raised THEN [g EXCEPT !.raised = FALSE, !.errors = @ \cup {"add_id_prefixes"}]
       ELSE [g EXCEPT !.done = @ \cup {"add_id_prefixes"}]

\* a call of add_id_prefixes(driver)
AddIdPrefixesCall ==
    /\ pc = "add_id_prefixes"
    /\ Len(calls) < MaxCalls
    /\ LET g == add_id_prefixes(nodes, edges, faults, constraints)
       IN /\ nodes' = g.nodes
          /\ out' = Output(g)
    /\ calls' = Append(calls, "add_id_prefixes")
    /\ UNCHANGED <<edges, constraints, csv, owl, graphConfig, pc, faults>>

-----------------------------------------------------------------------------
(* Graphs the normalizer can be run on *)

\* CONSTRAINT_QUERIES in the dictionary's order: <<label, key field>>
CONSTRAINT_QUERIES ==
    << <<"Assay", "assay_id">>, <<"Analysis", "analysis_id">>,
       <<"Documentation", "documentation_id">>, <<"Experiment", "experiment_id">>,
       <<"Group", "group_id">>, <<"Intervention", "intervention_id">>,
       <<"Material", "material_id">>, <<"Organism", "organism_id">>,
       <<"Study", "study_id">>, <<"Sample", "sample_id">>, <<"Result", "results_id">> >>

\* the constraints in force once all of CONSTRAINT_QUERIES have run
EntityConstraints == {CONSTRAINT_QUERIES[k] : k \in DOMAIN CONSTRAINT_QUERIES}

EntityLabels == {c[1] : c \in EntityConstraints}

\* the prefix-table fields each label carries in CREATE_QUERIES: <<label, key fields, other fields>>
IdSchema ==
    << <<"Assay", <<"assay_id">>, <<>> >>,
       <<"Analysis", <<"analysis_id">>, <<>> >>,
       <<"Experiment", <<"experiment_id">>, <<>> >>,
       <<"Material", <<"material_id">>, <<>> >>,
       <<"Organism", <<"organism_id">>, <<"experiment_id">> >>,
       <<"Sample", <<"sample_id">>, <<"organism_id">> >>,
       <<"Intervention", <<"intervention_id">>, <<"experiment_id", "organism_id", "material_id">> >>,
       <<"Group", <<>>, <<"experiment_id">> >>,
       <<"Result", <<>>, <<"experiment_id", "sample_id", "analysis_id", "assay_id">> >> >>

\* values a key field is loaded with: bare, or already carrying its prefix
KeyValues(field) == <<"123", prefix_mappings[PrefixOf(field)][2] \o "123">>

\* kinds of value of a non-key field
Kinds == <<"absent", "empty", "bare", "already prefixed">>

NKinds == Len(Kinds)

OtherValue(field, kind) ==
    IF kind = 1 THEN "" ELSE IF kind = 2 THEN "123"
    ELSE prefix_mappings[PrefixOf(field)][2] \o "7"

\* the c-th node of a schema entry (c from 0): the key takes value (c % 2) + 1
\* where there is one, and the j-th other field takes kind (c \div 2 + j) % 4
\* (kind 0: absent), so that every field meets every kind
SchemaNode(e, c) ==
    LET kindOf(j) == ((c \div (IF Len(e[2]) = 0 THEN 1 ELSE 2)) + j - 1) % NKinds
        others == {j \in DOMAIN e[3] : kindOf(j) # 0}
        fields == {e[2][j] : j \in DOMAIN e[2]} \cup {e[3][j] : j \in others}
    IN Node(e[1], [f \in fields |->
                     IF \E j \in DOMAIN e[2] : e[2][j] = f
                     THEN KeyValues(f)[(c % 2) + 1]
                     ELSE OtherValue(f, kindOf(CHOOSE j \in others : e[3][j] = f))])

SchemaCount(e) == (IF Len(e[2]) = 0 THEN 1 ELSE 2) * (IF Len(e[3]) = 0 THEN 1 ELSE NKinds)

\* all nodes of all schema entries, as a sequence
RECURSIVE SchemaNodes(_)
SchemaNodes(k) ==
    IF k > Len(IdSchema) THEN <<>>
    ELSE [c \in 1..SchemaCount(IdSchema[k]) |-> SchemaNode(IdSchema[k], c - 1)]
         \o SchemaNodes(k + 1)

NormalizerEntities == SchemaNodes(1)

\* one node of every label the normalizer touches or should touch
NormalizerGraph ==
    << Node("Organism", [f \in {"organism_id", "experiment_id"} |-> "123"]),
       Node("Sample", [f \in {"sample_id", "organism_id"} |-> "123"]),
       Node("Intervention", [f \in {"intervention_id", "experiment_id", "material_id"} |-> "123"]),
       Node("Experiment", [f \in {"experiment_id"} |-> "123"]) >>

InitNormalizer ==
    /\ csv = <<>> /\ owl = {} /\ graphConfig = "none" /\ calls = <<>> /\ out = NoOutput
    /\ constraints = EntityConstraints
    /\ edges = EmptyBag
    /\ pc = "add_id_prefixes"
    /\ \/ /\ faults = {}
          /\ \E n \in 0..MaxEntities :
               \E e \in Ascending(n, Len(NormalizerEntities), FALSE) :
                 /\ nodes = [k \in 1..n |-> NormalizerEntities[e[k]]]
                 /\ ~ViolatesUnique(nodes, constraints)
       \/ /\ nodes = NormalizerGraph
          /\ \E k \in DOMAIN PrefixQueries :
               faults = {PrefixQueryName(PrefixQueries[k][1], PrefixQueries[k][2])}

SpecNormalizer == InitNormalizer /\ [][AddIdPrefixesCall]_vars

-----------------------------------------------------------------------------
(* Properties of the ID Normalizer *)

\* C3: add_id_prefixes is idempotent: once it has run, running it again
\* changes no field of any node (a value that already starts with its prefix
\* is never rewritten).
C3_PrefixIdempotent == [][Len(calls) >= 1 => nodes' = nodes]_vars

\* two completed runs, the first of which rewrote "123" to "org_123" and "exp_123"
C3_Witness ==
    /\ Len(calls) = 2
    /\ "add_id_prefixes" \in out.done
    /\ \E i \in Labelled(nodes, "Organism") :
         /\ Has(nodes[i], "organism_id") /\ nodes[i].props["organism_id"] = "org_123"
         /\ Has(nodes[i], "experiment_id") /\ nodes[i].props["experiment_id"] = "exp_123"

\* v starts with prefix p exactly once
PrefixedOnce(v, p) == StartsWith(v, p) /\ ~StartsWith(substring(v, Len(p)), p)

\* C4: after add_id_prefixes completes, on every node of every entity label
\* (Group and Result included) every non-empty field of the prefix table
\* starts with its prefix exactly once.
C4_AllIdFieldsPrefixed ==
    (Len(calls) > 0 /\ "add_id_prefixes" \in out.done) =>
        \A i \in NodeIds, k \in DOMAIN prefix_mappings :
            (nodes[i].label \in EntityLabels /\ NonEmpty(nodes[i], prefix_mappings[k][1])) =>
                PrefixedOnce(nodes[i].props[prefix_mappings[k][1]], prefix_mappings[k][2])

\* the same restricted to the seven labels the queries name
UpdatedLabelsPrefixed ==
    (Len(calls) > 0 /\ "add_id_prefixes" \in out.done) =>
        \A i \in NodeIds, k \in DOMAIN prefix_mappings :
            ((\E l \in DOMAIN PrefixedLabels : nodes[i].label = PrefixedLabels[l])
                /\ NonEmpty(nodes[i], prefix_mappings[k][1])) =>
                PrefixedOnce(nodes[i].props[prefix_mappings[k][1]], prefix_mappings[k][2])

-----------------------------------------------------------------------------
(* Resource Property Humanizer: update_resource_properties *)

\* SET r.<readable> = r.<coded> for every pair: a node without the coded
\* property is assigned null, which removes the readable property
SetReadableKeepExisting(props) ==
    [f \in DOMAIN props \cup {CodedProps[k][2] : k \in {c \in DOMAIN CodedProps :
                                                     CodedProps[c][1] \in DOMAIN props}} |->
        IF f \in DOMAIN props THEN props[f] ELSE props[CodedProps[CodedOf(f)][1]]]
SetReadable(props) ==
    LET present == {k \in DOMAIN CodedProps : CodedProps[k][1] \in DOMAIN props}
    IN SetProps(props,
                [f \in {CodedProps[k][2] : k \in present} |-> props[CodedProps[CodedOf(f)][1]]],
                {CodedProps[k][2] : k \in DOMAIN CodedProps \ present})

\* REMOVE r.<coded> for every coded name
RemoveCoded(props) == [f \in DOMAIN props \ CodedNames |-> props[f]]

\* MATCH (r:Resource): every Resource node gets the properties new[i]
OnResources(ns, new) ==
    [i \in DOMAIN ns |->
        IF ns[i].label = "Resource" THEN [ns[i] EXCEPT !.props = new[i]] ELSE ns[i]]

HumanizerQueries == {"set_readable", "remove_coded"}

\* update_resource_properties: the two queries inside one try block; each
\* query commits on its own
update_resource_properties(ns, es, F) ==
    LET g0 == Working(ns, es)
        g1 == [g0 EXCEPT !.nodes = OnResources(ns, [i \in DOMAIN ns |-> SetReadable(ns[i].props)])]
        g2 == [g1 EXCEPT !.nodes = OnResources(g1.nodes, [i \in DOMAIN ns |-> RemoveCoded(g1.nodes[i].props)])]
    IN IF "set_readable" \in F THEN [g0 EXCEPT !.errors = {"update_resource_properties"}]
       ELSE IF "remove_coded" \in F THEN [g1 EXCEPT !.errors = {"update_resource_properties"}]
       ELSE [g2 EXCEPT !.done = {"update_resource_properties"}]

\* a call of update_resource_properties(session)
UpdateResourcePropertiesCall ==
    /\ pc = "update_resource_properties"
    /\ Len(calls) < MaxCalls
    /\ LET g == update_resource_properties(nodes, edges, faults)
       IN /\ nodes' = g.nodes
          /\ out' = Output(g)
    /\ calls' = Append(calls, "update_resource_properties")
    /\ UNCHANGED <<edges, constraints, csv, owl, graphConfig, pc, faults>>

-----------------------------------------------------------------------------
(* Graphs the humanizer can be run on *)

\* the properties a Resource may carry besides its uri, with the value of each:
\* coded ones as imported, readable ones as an earlier run may have left them
HumanizerProps ==
    << <<"IAO_0000115", "A vaccine.">>, <<"definition", "Old.">>,
       <<"VO_0003099", "T">>, <<"trade_name", "Old T">> >>

\* the k-th Resource carrying the properties P (a set of indices of HumanizerProps)
HumanizerResource(k, P) ==
    Node("Resource",
         [f \in {"uri"} \cup {HumanizerProps[x][1] : x \in P} |->
            IF f = "uri" THEN "http://o/R" \o ToString(k)
            ELSE HumanizerProps[CHOOSE x \in P : HumanizerProps[x][1] = f][2]])

InitHumanizer ==
    /\ Idle
    /\ edges = EmptyBag
    /\ pc = "update_resource_properties"
    /\ faults \in SUBSET HumanizerQueries
    /\ \E m \in 0..MaxResources :
         \E P \in [1..m -> SUBSET DOMAIN HumanizerProps] :
            nodes = <<Node("Experiment", [f \in {"experiment_id"} |-> "123"])>>
                    \o [k \in 1..m |-> HumanizerResource(k, P[k])]

SpecHumanizer == InitHumanizer /\ [][UpdateResourcePropertiesCall]_vars

-----------------------------------------------------------------------------
(* Properties of the humanizer *)

Resources == Labelled(nodes, "Resource")

\* C5: running update_resource_properties twice is safe: the readable
\* properties a Resource has after one run are still there, with the same
\* values, after the next run.
C5_SecondRunKeepsReadable ==
    [][Len(calls) >= 1 =>
         \A i \in Resources, f \in ReadableNames :
            f \in DOMAIN nodes[i].props =>
               (f \in DOMAIN nodes'[i].props /\ nodes'[i].props[f] = nodes[i].props[f])]_vars

\* C6: a Resource that has a coded property with value v before a run of
\* update_resource_properties has the readable property equal to v, and no
\* coded property, after it.
C6_CodedBecomesReadable ==
    [][(calls' # calls /\ "update_resource_properties" \in out'.done) =>
         \A i \in Resources, k \in DOMAIN CodedProps :
            CodedProps[k][1] \in DOMAIN nodes[i].props =>
               /\ CodedProps[k][2] \in DOMAIN nodes'[i].props
               /\ nodes'[i].props[CodedProps[k][2]] = nodes[i].props[CodedProps[k][1]]
               /\ CodedProps[k][1] \notin DOMAIN nodes'[i].props]_vars

\* IAO_0000115: "A vaccine." has become definition: "A vaccine."
C6_Witness ==
    /\ Len(calls) = 1
    /\ "update_resource_properties" \in out.done
    /\ \E i \in Resources :
         /\ "definition" \in DOMAIN nodes[i].props
         /\ nodes[i].props["definition"] = "A vaccine."
         /\ "IAO_0000115" \notin DOMAIN nodes[i].props

-----------------------------------------------------------------------------
(* Entity Loader and Relationship Linker: Import_to_neo4j.py *)

\* CREATE_QUERIES in the dictionary's order: MERGE on key, SET of every column
CREATE_QUERIES ==
    << [label |-> "Assay", key |-> "assay_id",
        columns |-> {"assay_name", "documentation_id", "assay_type", "assay_type_id",
                     "organism", "reagents", "platform", "comments"}],
       [label |-> "Analysis", key |-> "analysis_id",
        columns |-> {"documentation_id", "group_id", "analysis_name", "analysis_name_id",
                     "input_data", "input_data_id", "reference_id", "reference_source",
                     "comments", "assay_name", "assay_type", "assay_type_id", "organism",
                     "reagents", "platform"}],
       [label |-> "Documentation", key |-> "documentation_id",
        columns |-> {"study_id", "document_name", "document_type", "document_type_id",
                     "documentation_source", "source_id", "reference_source", "citation",
                     "citation_style", "person_id", "person_id_type", "honorific",
                     "first_name", "middle_name", "last_name", "person_role", "comments"}],
       [label |-> "Experiment", key |-> "experiment_id",
        columns |-> {"study_id", "experiment_type", "experiment_type_id",
                     "experiment_control", "source_id", "reference_source", "comments",
                     "experiment_name"}],
       [label |-> "Group", key |-> "group_id",
        columns |-> {"experiment_id", "group_type", "group_size", "reference_id",
                     "reference_source", "max_age", "min_age", "comments"}],
       [label |-> "Intervention", key |-> "intervention_id",
        columns |-> {"experiment_id", "organism_id", "material", "material_id", "dosage",
                     "dosage_unit", "dosage_unit_id", "intervention_type",
                     "intervention_type_id", "intervention_route", "intervention_route_id",
                     "T0_defintion", "intervention_time", "intervention_unit",
                     "intervention_time_unit_id", "source_id", "reference_source",
                     "comments", "T0_definition"}],
       [label |-> "Material", key |-> "material_id",
        columns |-> {"material_name", "material_name_id", "organization", "reference_id",
                     "reference_source", "comments", "reference"}],
       [label |-> "Organism", key |-> "organism_id",
        columns |-> {"group_id", "experiment_id", "species", "species_id", "type", "type_id",
                     "age", "age_unit", "age_unit_id", "sex", "sex_id", "reference_id",
                     "reference_source", "comments"}],
       [label |-> "Study", key |-> "study_id",
        columns |-> {"study_type", "study_type_id", "study_name", "study_description",
                     "reference_id", "reference_source", "comments"}],
       [label |-> "Sample", key |-> "sample_id",
        columns |-> {"group_id", "organism_id", "collection", "collection_id",
                     "collection_time", "collection_time_unit", "collection_time_unit_id",
                     "T0_definitionexpsample_type", "expsample_type_id",
                     "expsample_reference_id", "expsample_reference_name", "biosample_type",
                     "biosample_type_id", "biosample_reference_id",
                     "biosample_reference_name", "replicates", "expsample_type",
                     "expsample_source"}],
       [label |-> "Result", key |-> "results_id",
        columns |-> {"experiment_id", "group_id", "sample_id", "analysis_name",
                     "analysis_id", "original_assay_type", "assay_id", "analysis_type",
                     "datatype", "datatype_id", "file_access", "file_type", "replications",
                     "comments", "document_id", "original_assay_type_id"}] >>

\* RELATIONSHIP_QUERIES in the dictionary's order: MATCH (src), (dst)
\* WHERE src.srcField = dst.dstField MERGE (src)-[:rel]->(dst)
RELATIONSHIP_QUERIES ==
    << [name |-> "StudyExperiment", src |-> "Study", srcField |-> "study_id",
        dst |-> "Experiment", dstField |-> "study_id", rel |-> "HAS_EXPERIMENT"],
       [name |-> "StudyDocumentation", src |-> "Study", srcField |-> "study_id",
        dst |-> "Documentation", dstField |-> "study_id", rel |-> "PROVIDES_DOCUMENTATION"],
       [name |-> "ExperimentGroup", src |-> "Experiment", srcField |-> "experiment_id",
        dst |-> "Group", dstField |-> "experiment_id", rel |-> "CONTAINS_GROUP"],
       [name |-> "ExperimentOrganism", src |-> "Experiment", srcField |-> "experiment_id",
        dst |-> "Organism", dstField |-> "experiment_id", rel |-> "INVOLVES_ORGANISM"],
       [name |-> "ExperimentIntervention", src |-> "Experiment", srcField |-> "experiment_id",
        dst |-> "Intervention", dstField |-> "experiment_id", rel |-> "HAS_INTERVENTION"],
       [name |-> "ExperimentResult", src |-> "Experiment", srcField |-> "experiment_id",
        dst |-> "Result", dstField |-> "experiment_id", rel |-> "YIELDS_RESULT"],
       [name |-> "GroupOrganism", src |-> "Group", srcField |-> "group_id",
        dst |-> "Organism", dstField |-> "group_id", rel |-> "COMPOSED_OF"],
       [name |-> "GroupSample", src |-> "Group", srcField |-> "group_id",
        dst |-> "Sample", dstField |-> "group_id", rel |-> "PROVIDES_SAMPLE"],
       [name |-> "GroupResult", src |-> "Group", srcField |-> "group_id",
        dst |-> "Result", dstField |-> "group_id", rel |-> "ASSOCIATED_WITH_RESULT"],
       [name |-> "OrganismSample", src |-> "Organism", srcField |-> "organism_id",
        dst |-> "Sample", dstField |-> "organism_id", rel |-> "IS_SOURCE_OF"],
       [name |-> "OrganismIntervention", src |-> "Organism", srcField |-> "organism_id",
        dst |-> "Intervention", dstField |-> "organism_id", rel |-> "UNDERGOES"],
       [name |-> "SampleResult", src |-> "Sample", srcField |-> "sample_id",
        dst |-> "Result", dstField |-> "sample_id", rel |-> "GENERATES_RESULT"],
       [name |-> "InterventionMaterial", src |-> "Intervention", srcField |-> "material_id",
        dst |-> "Material", dstField |-> "material_id", rel |-> "APPLIES_MATERIAL"],
       [name |-> "AnalysisAssay", src |-> "Analysis", srcField |-> "assay_name",
        dst |-> "Assay", dstField |-> "assay_name", rel |-> "ANALYZES_ASSAY"],
       [name |-> "AnalysisResult", src |-> "Analysis", srcField |-> "analysis_id",
        dst |-> "Result", dstField |-> "analysis_id", rel |-> "PRODUCED_RESULT"],
       [name |-> "DocumentationAssay", src |-> "Documentation", srcField |-> "documentation_id",
        dst |-> "Assay", dstField |-> "documentation_id", rel |-> "DESCRIBES"],
       [name |-> "DocumentationAnalysis", src |-> "Documentation", srcField |-> "documentation_id",
        dst |-> "Analysis", dstField |-> "documentation_id", rel |-> "DESCRIBES"],
       [name |-> "DocumentationResult", src |-> "Documentation", srcField |-> "documentation_id",
        dst |-> "Result", dstField |-> "document_id", rel |-> "DESCRIBES"],
       [name |-> "InterventionReferencesMaterial", src |-> "Intervention", srcField |-> "material_id",
        dst |-> "Material", dstField |-> "reference_id", rel |-> "REFERENCES_MATERIAL"],
       [name |-> "ResultFromAssay", src |-> "Result", srcField |-> "assay_id",
        dst |-> "Assay", dstField |-> "platform", rel |-> "DERIVED_FROM_ASSAY"] >>


\* what the entry point has printed so far in this run
Printed(o, g) ==
    [errors |-> o.errors \cup g.errors,
     counts |-> [f \in DOMAIN o.counts \cup DOMAIN g.counts |->
                    IF f \in DOMAIN g.counts THEN g.counts[f] ELSE o.counts[f]],
     done   |-> o.done \cup g.done]

\* execute_queries(driver, CONSTRAINT_QUERIES): CREATE CONSTRAINT IF NOT EXISTS,
\* one query after the other; an exception ends the loop
RECURSIVE RunConstraintQueries(_, _, _, _)
RunConstraintQueries(st, k, ns, F) ==
    IF k > Len(CONSTRAINT_QUERIES) \/ st.raised THEN st
    ELSE LET c == CONSTRAINT_QUERIES[k]
             fails == \/ ("constraint." \o c[1]) \in F
                      \/ c \notin st.constraints /\ ViolatesUnique(ns, {c})
         IN RunConstraintQueries(
                IF fails THEN [st EXCEPT !.raised = TRUE]
                ELSE [st EXCEPT !.constraints = @ \cup {c}],
                k + 1, ns, F)

\* CREATE in place of MERGE: every row makes a node of its own
MergeRowCreate(ns, q, row) ==
    Append(ns, Node(q.label, [c \in (q.columns \cup {q.key}) \cap DOMAIN row |-> row[c]]))

\* MERGE (n:label {key: row.key}) SET n.column = row.column, ... for one row:
\* the nodes with that key are updated, and one is created when there is none
MergeRow(ns, q, row) ==
    LET hits == {i \in Labelled(ns, q.label) :
                    Has(ns[i], q.key) /\ ns[i].props[q.key] = row[q.key]}
        base == IF hits = {}
                THEN Append(ns, Node(q.label, [f \in {q.key} |-> row[q.key]]))
                ELSE ns
        tgt  == IF hits = {} THEN {Len(ns) + 1} ELSE hits
        map  == [c \in q.columns \cap DOMAIN row |-> row[c]]
    IN [i \in DOMAIN base |->
          IF i \in tgt
          THEN [base[i] EXCEPT !.props = SetProps(@, map, q.columns \ DOMAIN row)]
          ELSE base[i]]

RECURSIVE MergeRows(_, _, _, _)
MergeRows(ns, q, rows, k) ==
    IF k > Len(rows) THEN ns ELSE MergeRows(MergeRow(ns, q, rows[k]), q, rows, k + 1)

\* one LOAD CSV query: it raises, and loads nothing, when it is faulty or a
\* row has no key (MERGE on a null property)
CreateQuery(g, q, rows, F) ==
    IF g.raised THEN g
    ELSE IF ("create." \o q.label) \in F \/ \E k \in DOMAIN rows : q.key \notin DOMAIN rows[k]
    THEN [g EXCEPT !.raised = TRUE]
    ELSE [g EXCEPT !.nodes = MergeRows(g.nodes, q, rows, 1)]

\* execute_queries(driver, CREATE_QUERIES)
RECURSIVE RunCreateQueries(_, _, _, _)
RunCreateQueries(g, k, files, F) ==
    IF k > Len(CREATE_QUERIES) \/ g.raised THEN g
    ELSE RunCreateQueries(CreateQuery(g, CREATE_QUERIES[k], files[CREATE_QUERIES[k].label], F),
                          k + 1, files, F)

\* the pairs of a relationship rule: both fields present and equal
RelationshipPairsNoWhere(ns, q) == Labelled(ns, q.src) \X Labelled(ns, q.dst)
RelationshipPairs(ns, q) ==
    {p \in Labelled(ns, q.src) \X Labelled(ns, q.dst) :
        /\ Has(ns[p[1]], q.srcField)
        /\ Has(ns[p[2]], q.dstField)
        /\ ns[p[1]].props[q.srcField] = ns[p[2]].props[q.dstField]}

RelationshipQuery(g, q, F) ==
    IF g.raised THEN g
    ELSE IF ("rel." \o q.name) \in F THEN [g EXCEPT !.raised = TRUE]
    ELSE [g EXCEPT !.edges = MergeEdges(@, q.rel, RelationshipPairs(g.nodes, q))]

\* execute_queries(driver, RELATIONSHIP_QUERIES)
RECURSIVE RunRelationshipQueries(_, _, _)
RunRelationshipQueries(g, k, F) ==
    IF k > Len(RELATIONSHIP_QUERIES) \/ g.raised THEN g
    ELSE RunRelationshipQueries(RelationshipQuery(g, RELATIONSHIP_QUERIES[k], F), k + 1, F)

\* python Import_to_neo4j.py: import_data() opens the driver
LoadStart ==
    /\ pc = "shell"
    /\ Len(calls) < MaxCalls
    /\ pc' = "constraints"
    /\ calls' = Append(calls, "load")
    /\ out' = NoOutput
    /\ UNCHANGED <<nodes, edges, constraints, csv, owl, graphConfig, faults>>

\* an exception that nothing catches ends the script
Crash(o) == [o EXCEPT !.errors = @ \cup {"Traceback"}]

\* Step 1 with a retry: after a failure the constraints are tried again
ConstraintsPhaseRetry ==
    /\ pc = "constraints"
    /\ LET st == RunConstraintQueries([constraints |-> constraints, raised |-> FALSE],
                                      1, nodes, faults)
       IN /\ constraints' = st.constraints
          /\ IF st.raised
             THEN pc' = "constraints" /\ out' = Crash(out)
             ELSE pc' = "create" /\ out' = [out EXCEPT !.done = @ \cup {"Constraints created."}]
    /\ UNCHANGED <<nodes, edges, csv, owl, graphConfig, faults, calls>>

\* Step 1: Create Constraints
ConstraintsPhase ==
    /\ pc = "constraints"
    /\ LET st == RunConstraintQueries([constraints |-> constraints, raised |-> FALSE],
                                      1, nodes, faults)
       IN /\ constraints' = st.constraints
          /\ IF st.raised
             THEN pc' = "shell" /\ out' = Crash(out)
             ELSE pc' = "create" /\ out' = [out EXCEPT !.done = @ \cup {"Constraints created."}]
    /\ UNCHANGED <<nodes, edges, csv, owl, graphConfig, faults, calls>>

\* Step 2: Import CSV Data into Nodes
CreatePhase ==
    /\ pc = "create"
    /\ LET g == RunCreateQueries(Working(nodes, edges), 1, csv, faults)
       IN /\ nodes' = g.nodes
          /\ IF g.raised
             THEN pc' = "shell" /\ out' = Crash(out)
             ELSE /\ pc' = "relationships"
                  /\ out' = [out EXCEPT !.done = @ \cup {"CSV data imported into nodes."}]
    /\ UNCHANGED <<edges, constraints, csv, owl, graphConfig, faults, calls>>

\* Step 3: Establish Relationships, then driver.close()
RelationshipsPhase ==
    /\ pc = "relationships"
    /\ LET g == RunRelationshipQueries(Working(nodes, edges), 1, faults)
       IN /\ edges' = g.edges
          /\ IF g.raised
             THEN out' = Crash(out)
             ELSE out' = [out EXCEPT !.done = @ \cup {"Relationships created."}]
    /\ pc' = "shell"
    /\ UNCHANGED <<nodes, constraints, csv, owl, graphConfig, faults, calls>>

-----------------------------------------------------------------------------
(* Ontology entry point: ontology_mapping.py import_data *)

ResourceUri == <<"Resource", "uri">>

\* n10s.rdf.import.fetch: every Resource of the document is merged by uri and
\* given the document's properties
RECURSIVE ImportResources(_, _, _)
ImportResources(ns, doc, k) ==
    IF k > Len(doc) THEN ns
    ELSE LET hits == {i \in Labelled(ns, "Resource") :
                         Has(ns[i], "uri") /\ ns[i].props["uri"] = doc[k].props["uri"]}
         IN ImportResources(
                IF hits = {} THEN Append(ns, doc[k])
                ELSE [i \in DOMAIN ns |->
                        IF i \in hits
                        THEN [ns[i] EXCEPT !.props = SetProps(@, doc[k].props, {})]
                        ELSE ns[i]],
                doc, k + 1)

OntologyQueries == {"n10s.constraint", "n10s.reset", "n10s.init", "n10s.fetch", "n10s.count"}

\* the constraint inside the outer try block: its failure ends the function
import_ontology_complete_one_try(ns, cs, gc, doc, F) ==
    LET exists == ResourceUri \in cs
        cs1 == IF "n10s.constraint" \in F \/ exists \/ ViolatesUnique(ns, {ResourceUri})
               THEN cs ELSE cs \cup {ResourceUri}
        st  == [nodes |-> ns, constraints |-> cs1, graphConfig |-> gc,
                errors |-> {}, counts |-> <<>>, done |-> {"constraint attempted"}]
        failed(x) == [x EXCEPT !.errors = @ \cup {"import_ontology_complete"}]
        st2 == [st EXCEPT !.graphConfig = "none", !.done = @ \cup {"Cleared previous graph config"}]
        st3 == [st2 EXCEPT !.graphConfig = "init", !.done = @ \cup {"n10s configured successfully"}]
        st4 == [st3 EXCEPT !.nodes = ImportResources(ns, doc, 1),
                           !.counts = [f \in {"triplesParsed"} |-> Len(doc)]]
        st5 == [st4 EXCEPT !.counts = [f \in {"triplesParsed", "imported"} |->
                                         IF f = "triplesParsed" THEN Len(doc)
                                         ELSE Cardinality(Labelled(st4.nodes, "Resource"))]]
    IN IF "n10s.constraint" \in F \/ exists THEN failed(st)
       ELSE IF "n10s.reset" \in F THEN failed(st)
       ELSE IF "n10s.init" \in F THEN failed(st2)
       ELSE IF "n10s.fetch" \in F THEN failed(st3)
       ELSE IF "n10s.count" \in F THEN failed(st4)
       ELSE st5

\* import_ontology_complete: the constraint in a try block of its own, then
\* reset, init, fetch and count in the outer try block, whose handler prints
\* the error and returns
import_ontology_complete(ns, cs, gc, doc, F) ==
    LET exists == ResourceUri \in cs
        cs1 == IF "n10s.constraint" \in F \/ exists \/ ViolatesUnique(ns, {ResourceUri})
               THEN cs ELSE cs \cup {ResourceUri}
        st  == [nodes |-> ns, constraints |-> cs1, graphConfig |-> gc,
                errors |-> {}, counts |-> <<>>, done |-> {"constraint attempted"}]
        failed(x) == [x EXCEPT !.errors = @ \cup {"import_ontology_complete"}]
        st2 == [st EXCEPT !.graphConfig = "none", !.done = @ \cup {"Cleared previous graph config"}]
        st3 == [st2 EXCEPT !.graphConfig = "init", !.done = @ \cup {"n10s configured successfully"}]
        st4 == [st3 EXCEPT !.nodes = ImportResources(ns, doc, 1),
                           !.counts = [f \in {"triplesParsed"} |-> Len(doc)]]
        st5 == [st4 EXCEPT !.counts = [f \in {"triplesParsed", "imported"} |->
                                         IF f = "triplesParsed" THEN Len(doc)
                                         ELSE Cardinality(Labelled(st4.nodes, "Resource"))]]
    IN IF "n10s.reset" \in F THEN failed(st)
       ELSE IF "n10s.init" \in F THEN failed(st2)
       ELSE IF "n10s.fetch" \in F THEN failed(st3)
       ELSE IF "n10s.count" \in F THEN failed(st4)
       ELSE st5

\* python ontology_mapping.py: import_data() opens the driver
OntologyStart ==
    /\ pc = "shell"
    /\ Len(calls) < MaxCalls
    /\ pc' = "ontology"
    /\ calls' = Append(calls, "ontology")
    /\ out' = NoOutput
    /\ UNCHANGED <<nodes, edges, constraints, csv, owl, graphConfig, faults>>

\* import_ontology_complete(driver); it returns normally whatever happened
ImportOntologyPhase ==
    /\ pc = "ontology"
    /\ LET st == import_ontology_complete(nodes, constraints, graphConfig, owl, faults)
       IN /\ nodes' = st.nodes
          /\ constraints' = st.constraints
          /\ graphConfig' = st.graphConfig
          /\ out' = Printed(out, st)
    /\ pc' = "normalize"
    /\ UNCHANGED <<edges, csv, owl, faults, calls>>

\* add_id_prefixes(driver)
AddIdPrefixesPhase ==
    /\ pc = "normalize"
    /\ LET g == add_id_prefixes(nodes, edges, faults, constraints)
       IN /\ nodes' = g.nodes
          /\ out' = Printed(out, g)
    /\ pc' = "mapping"
    /\ UNCHANGED <<edges, constraints, csv, owl, graphConfig, faults, calls>>

\* map_ontology(driver)
MapOntologyPhase ==
    /\ pc = "mapping"
    /\ \E rank \in ScanOrders(nodes) :
         LET g == map_ontology(nodes, edges, faults, rank)
         IN /\ nodes' = g.nodes
            /\ edges' = g.edges
            /\ out' = Printed(out, g)
    /\ pc' = "humanize"
    /\ UNCHANGED <<constraints, csv, owl, graphConfig, faults, calls>>

\* update_resource_properties(session), then driver.close()
UpdateResourcePropertiesPhase ==
    /\ pc = "humanize"
    /\ LET g == update_resource_properties(nodes, edges, faults)
       IN /\ nodes' = g.nodes
          /\ out' = Printed(out, g)
    /\ pc' = "shell"
    /\ UNCHANGED <<edges, constraints, csv, owl, graphConfig, faults, calls>>

-----------------------------------------------------------------------------
(* The input files and the ontology document *)

Row1(a, x) == [f \in {a} |-> x]
Row2(a, x, b, y) == [f \in {a, b} |-> IF f = a THEN x ELSE y]

\* one row per file; every relationship rule and every mapping rule has a match
FullDataset ==
    [l \in EntityLabels |->
       CASE l = "Study" -> <<Row1("study_id", "S1")>>
         [] l = "Documentation" -> <<Row2("documentation_id", "D1", "study_id", "S1")>>
         [] l = "Experiment" ->
              << [f \in {"experiment_id", "study_id", "experiment_type_id"} |->
                    IF f = "experiment_id" THEN "E1" ELSE IF f = "study_id" THEN "S1" ELSE "AB"] >>
         [] l = "Group" -> <<Row2("group_id", "G1", "experiment_id", "E1")>>
         [] l = "Organism" ->
              << [f \in {"organism_id", "group_id", "experiment_id", "species_id"} |->
                    IF f = "organism_id" THEN "O1" ELSE IF f = "group_id" THEN "G1"
                    ELSE IF f = "experiment_id" THEN "E1" ELSE "A_B"] >>
         [] l = "Intervention" ->
              << [f \in {"intervention_id", "experiment_id", "organism_id", "material_id",
                         "intervention_type_id"} |->
                    IF f = "intervention_id" THEN "I1" ELSE IF f = "experiment_id" THEN "E1"
                    ELSE IF f = "organism_id" THEN "O1" ELSE IF f = "material_id" THEN "AB"
                    ELSE "int_type_XAB"] >>
         [] l = "Material" ->
              << [f \in {"material_id", "reference_id", "material_name_id"} |-> "AB"] >>
         [] l = "Sample" ->
              << [f \in {"sample_id", "group_id", "organism_id"} |->
                    IF f = "sample_id" THEN "P1" ELSE IF f = "group_id" THEN "G1" ELSE "O1"] >>
         [] l = "Assay" ->
              << [f \in {"assay_id", "assay_name", "documentation_id", "platform"} |->
                    IF f = "assay_name" THEN "N" ELSE IF f = "documentation_id" THEN "D1"
                    ELSE "A1"] >>
         [] l = "Analysis" ->
              << [f \in {"analysis_id", "assay_name", "documentation_id"} |->
                    IF f = "analysis_id" THEN "Y1" ELSE IF f = "assay_name" THEN "N" ELSE "D1"] >>
         [] l = "Result" ->
              << [f \in {"results_id", "experiment_id", "group_id", "sample_id", "analysis_id",
                         "assay_id", "document_id"} |->
                    IF f = "results_id" THEN "R1" ELSE IF f = "experiment_id" THEN "E1"
                    ELSE IF f = "group_id" THEN "G1" ELSE IF f = "sample_id" THEN "P1"
                    ELSE IF f = "analysis_id" THEN "Y1" ELSE IF f = "assay_id" THEN "A1"
                    ELSE "D1"] >>]

EmptyDataset == [l \in EntityLabels |-> <<>>]

\* rows of study.csv and experiment.csv: studies S1 and S2; experiments of S1,
\* of S2, of no study, a second row for E1, a row without a key, and an
\* experiment whose key is E1's with the normalizer's prefix
StudyRows == <<Row1("study_id", "S1"), Row1("study_id", "S2")>>

ExperimentRows ==
    << Row2("experiment_id", "E1", "study_id", "S1"),
       Row2("experiment_id", "E2", "study_id", "S2"),
       Row1("experiment_id", "E3"),
       Row2("experiment_id", "E1", "study_id", "S2"),
       Row1("study_id", "S1"),
       Row2("experiment_id", "exp_E1", "study_id", "S1") >>

\* every query of the two entry points
AllQueries ==
    {"constraint." \o CONSTRAINT_QUERIES[k][1] : k \in DOMAIN CONSTRAINT_QUERIES}
    \cup {"create." \o CREATE_QUERIES[k].label : k \in DOMAIN CREATE_QUERIES}
    \cup {"rel." \o RELATIONSHIP_QUERIES[k].name : k \in DOMAIN RELATIONSHIP_QUERIES}
    \cup OntologyQueries
    \cup {PrefixQueryName(PrefixQueries[k][1], PrefixQueries[k][2]) : k \in DOMAIN PrefixQueries}
    \cup MapperQueries
    \cup HumanizerQueries

Init ==
    /\ nodes = <<>>
    /\ edges = EmptyBag
    /\ constraints = {}
    /\ graphConfig = "none"
    /\ pc = "shell"
    /\ calls = <<>>
    /\ out = NoOutput
    /\ \/ /\ faults = {}
          /\ \E m \in 0..MaxResources : owl = [k \in 1..m |-> MapperResources[k]]
          /\ \E base \in {EmptyDataset, FullDataset}, ns \in 0..Len(StudyRows),
                n \in 0..MaxEntities :
               \E e \in Ascending(n, Len(ExperimentRows), TRUE) :
                  csv = [l \in EntityLabels |->
                           IF l = "Study" THEN [k \in 1..ns |-> StudyRows[k]] \o base[l]
                           ELSE IF l = "Experiment"
                           THEN [k \in 1..n |-> ExperimentRows[e[k]]] \o base[l]
                           ELSE base[l]]
       \/ /\ csv = FullDataset
          /\ owl = [k \in 1..MaxResources |-> MapperResources[k]]
          /\ \E q \in AllQueries : faults = {q}

Next ==
    \/ LoadStart
    \/ ConstraintsPhase
    \/ CreatePhase
    \/ RelationshipsPhase
    \/ OntologyStart
    \/ ImportOntologyPhase
    \/ AddIdPrefixesPhase
    \/ MapOntologyPhase
    \/ UpdateResourcePropertiesPhase

Spec == Init /\ [][Next]_vars

-----------------------------------------------------------------------------
(* Properties of the two entry points *)

LinkingDone == pc = "shell" /\ "Relationships created." \in out.done

Loads == Len(SelectSeq(calls, LAMBDA c : c = "load"))

RuleExecuted(o) == \E r \in RuleNames : r \in DOMAIN o.counts \/ r \in o.errors

\* C7: when a step of import_ontology_complete has failed, the run of the
\* ontology pipeline executes no mapping rule, and the step that follows the
\* failure removes no node and no edge of the graph
C7_FailedImportStopsMapping ==
    [][("import_ontology_complete" \in out.errors /\ calls' = calls)
         => /\ ~RuleExecuted(out')
            /\ Len(nodes') >= Len(nodes)
            /\ edges \sqsubseteq edges']_vars

\* C9: no relationship type has two edges between the same ordered pair of
\* nodes, and once linking has completed, however many times it ran, every
\* pair that satisfies a rule is joined by exactly one edge of the rule's type
C9_OneEdgePerMatchingPair ==
    \A k \in DOMAIN RELATIONSHIP_QUERIES :
       LET q == RELATIONSHIP_QUERIES[k]
       IN /\ \A e \in BagToSet(edges) : e[1] = q.rel => CopiesIn(e, edges) = 1
          /\ LinkingDone =>
               \A p \in RelationshipPairs(nodes, q) :
                  CopiesIn(<<q.rel, p[1], p[2]>>, edges) = 1

\* linking has completed for the second time on a graph where every rule has a pair
C9_Witness ==
    /\ LinkingDone
    /\ Loads = 2
    /\ \A k \in DOMAIN RELATIONSHIP_QUERIES :
          RelationshipPairs(nodes, RELATIONSHIP_QUERIES[k]) # {}

\* C10: after relationship linking, there is exactly one HAS_EXPERIMENT edge
\* from a Study to an Experiment whose study_id equals the Study's, and none
\* to an Experiment whose study_id differs or is absent
C10_HasExperimentIffSameStudy ==
    LinkingDone =>
       \A s \in Labelled(nodes, "Study"), e \in Labelled(nodes, "Experiment") :
          CopiesIn(<<"HAS_EXPERIMENT", s, e>>, edges)
             = IF /\ Has(nodes[s], "study_id")
                  /\ Has(nodes[e], "study_id")
                  /\ nodes[s].props["study_id"] = nodes[e].props["study_id"]
               THEN 1 ELSE 0

\* Study S1 is linked to Experiment E1 of S1, and the graph also holds an
\* Experiment of another study and an Experiment of no study
C10_Witness ==
    /\ LinkingDone
    /\ \E s \in Labelled(nodes, "Study"), e \in Labelled(nodes, "Experiment") :
          /\ nodes[s].props["study_id"] = "S1"
          /\ nodes[e].props["experiment_id"] = "E1"
          /\ Has(nodes[e], "study_id") /\ nodes[e].props["study_id"] = "S1"
          /\ BagIn(<<"HAS_EXPERIMENT", s, e>>, edges)
          /\ \E d \in Labelled(nodes, "Experiment") :
                Has(nodes[d], "study_id") /\ nodes[d].props["study_id"] = "S2"
          /\ \E a \in Labelled(nodes, "Experiment") : ~Has(nodes[a], "study_id")

\* every run so far was a run of the load entry point
OnlyLoads == \A k \in DOMAIN calls : calls[k] = "load"

\* C11: when the files were loaded before and are loaded again unchanged, the
\* load queries leave every label with the same nodes and the same attribute
\* values as the first load did
C11_ReloadSameNodes ==
    [][(pc = "create" /\ Loads >= 2 /\ OnlyLoads) => nodes' = nodes]_vars

\* the second load has merged its rows, among them an Experiment with its study
C11_Witness ==
    /\ calls = <<"load", "load">>
    /\ pc = "relationships"
    /\ \E e \in Labelled(nodes, "Experiment") : Has(nodes[e], "study_id")
    /\ Labelled(nodes, "Study") # {}

\* C12: in every state of the pipeline no two nodes of one entity label have
\* the same value of the label's key field
C12_KeysUnique ==
    \A k \in DOMAIN CONSTRAINT_QUERIES :
       LET label == CONSTRAINT_QUERIES[k][1]
           key   == CONSTRAINT_QUERIES[k][2]
       IN \A i, j \in Labelled(nodes, label) :
             (i # j /\ Has(nodes[i], key) /\ Has(nodes[j], key))
                => nodes[i].props[key] # nodes[j].props[key]

\* add_id_prefixes has met an Experiment with key "E1" next to one with key
\* "exp_E1": its query raised and both nodes are as they were
C12_Witness ==
    /\ pc = "mapping"
    /\ "add_id_prefixes" \in out.errors
    /\ \E i, j \in Labelled(nodes, "Experiment") :
          /\ nodes[i].props["experiment_id"] = "E1"
          /\ nodes[j].props["experiment_id"] = "exp_E1"

\* the phases that can follow a phase; "shell": no entry point is running
NextPhases(p) ==
    CASE p = "shell"         -> {"constraints", "ontology"}
      [] p = "constraints"   -> {"create", "shell"}
      [] p = "create"        -> {"relationships", "shell"}
      [] p = "relationships" -> {"shell"}
      [] p = "ontology"      -> {"normalize"}
      [] p = "normalize"     -> {"mapping"}
      [] p = "mapping"       -> {"humanize"}
      [] p = "humanize"      -> {"shell"}

\* C13: every step leaves its phase for the next one of the same entry point
\* (or ends the run), so no phase is entered twice in a run or retried; the
\* entity load starts with every uniqueness constraint declared, and the
\* relationship rules start after the entity load has completed
C13_PhasesInOrder ==
    [][/\ pc' # pc
       /\ pc' \in NextPhases(pc)
       /\ pc' = "create" => EntityConstraints \subseteq constraints'
       /\ pc' = "relationships" => "CSV data imported into nodes." \in out'.done
       /\ nodes' # nodes => pc \in {"create", "ontology", "normalize", "mapping", "humanize"}
       /\ edges' # edges => pc \in {"relationships", "mapping"}]_vars

\* a load run and then an ontology run have gone through all their phases
C13_Witness ==
    /\ calls = <<"load", "ontology">>
    /\ pc = "shell"
    /\ "update_resource_properties" \in out.done
    /\ nodes # <<>>
    /\ edges # EmptyBag

\* C14: a failing query ends only its own phase: no exception leaves the entry
\* point, and the phase that follows still runs
C14_FailureCaughtInPhase ==
    [][/\ "Traceback" \notin out'.errors
       /\ pc = "constraints" => pc' = "create"
       /\ pc = "create" => pc' = "relationships"
       /\ pc = "normalize" => pc' = "mapping"
       /\ pc = "humanize" => pc' = "shell"]_vars

ImportSteps ==
    <<"constraint attempted", "Cleared previous graph config", "n10s configured successfully">>

C16_ReadableKeptWithoutCoded ==
    [][calls' # calls =>
         \A i \in Resources, k \in DOMAIN CodedProps :
            (CodedProps[k][1] \notin DOMAIN nodes[i].props
                /\ CodedProps[k][2] \in DOMAIN nodes[i].props)
               => /\ CodedProps[k][2] \in DOMAIN nodes'[i].props
                  /\ nodes'[i].props[CodedProps[k][2]] = nodes[i].props[CodedProps[k][2]]]_vars

\* Organism i, whose plain candidate key is the URI tail of Resource a and
\* whose '_' -> ':' variant is the URI tail of another Resource b
PlainAndColon(i, a, b) ==
    LET r == OrganismRule(organism_mappings[1])
    IN /\ i \in Labelled(nodes, "Organism")
       /\ NonEmpty(nodes[i], r.prop)
       /\ a \in Labelled(nodes, "Resource") /\ b \in Labelled(nodes, "Resource")
       /\ a # b
       /\ UriTail(a) = CandidateKey(nodes[i].props[r.prop], r)
       /\ UriTail(b) = replace(CandidateKey(nodes[i].props[r.prop], r), "_", ":")

C18_CountIsLinkedEntities ==
    MapperRanClean =>
       \A k \in DOMAIN MappingRules :
          LET r == MappingRules[k]
              linked == {i \in Labelled(nodes, r.label) :
                           \E j \in Labelled(nodes, "Resource") : BagIn(<<r.rel, i, j>>, edges)}
          IN /\ r.name \in DOMAIN out.counts
             /\ out.counts[r.name] = Cardinality(linked)

\* C19: after ID normalization every edge of a relationship rule connects
\* two nodes whose join fields are present and equal
C19_EdgesStillJoin ==
    (pc = "mapping" /\ "add_id_prefixes" \in out.done) =>
       \A k \in DOMAIN RELATIONSHIP_QUERIES :
          LET q == RELATIONSHIP_QUERIES[k]
          IN \A a \in Labelled(nodes, q.src), b \in Labelled(nodes, q.dst) :
                BagIn(<<q.rel, a, b>>, edges) =>
                   /\ Has(nodes[a], q.srcField)
                   /\ Has(nodes[b], q.dstField)
                   /\ nodes[a].props[q.srcField] = nodes[b].props[q.dstField]

\* C20: when no query fails, after ID normalization and mapping an Intervention
\* loaded with an unprefixed material_id that is the final URI segment of a
\* Resource has a USES_MATERIAL edge to that Resource
C20_MaterialIdRoundTrip ==
    (pc = "humanize" /\ faults = {} /\ out.errors = {} /\ "map_ontology" \in out.done) =>
       \A i \in Labelled(nodes, "Intervention"), j \in Labelled(nodes, "Resource") :
          (\E k \in DOMAIN csv["Intervention"] :
              LET row == csv["Intervention"][k]
              IN /\ "material_id" \in DOMAIN row
                 /\ ~StartsWith(row["material_id"], "mat_")
                 /\ row["material_id"] = UriTail(j)
                 /\ nodes[i].props["intervention_id"] = "int_" \o row["intervention_id"]
                 /\ Has(nodes[i], "material_id")
                 /\ nodes[i].props["material_id"] = "mat_" \o row["material_id"])
             => BagIn(<<"USES_MATERIAL", i, j>>, edges)

-----------------------------------------------------------------------------
(* Re-running the pipeline on a database that a load run has filled *)

\* the graph a completed run of the load entry point leaves from an empty database
LoadedGraph(files) ==
    LET g == RunCreateQueries(Working(<<>>, EmptyBag), 1, files, {})
    IN RunRelationshipQueries(g, 1, {})

\* the database after one completed load of the files; calls lists the runs
\* that follow it
InitRerun ==
    /\ faults = {}
    /\ \E m \in 0..MaxResources : owl = [k \in 1..m |-> MapperResources[k]]
    /\ \E base \in {EmptyDataset, FullDataset}, ns \in 0..Len(StudyRows),
          n \in 0..MaxEntities :
         \E e \in Ascending(n, Len(ExperimentRows), TRUE) :
            csv = [l \in EntityLabels |->
                     IF l = "Study" THEN [k \in 1..ns |-> StudyRows[k]] \o base[l]
                     ELSE IF l = "Experiment"
                     THEN [k \in 1..n |-> ExperimentRows[e[k]]] \o base[l]
                     ELSE base[l]]
    /\ ~LoadedGraph(csv).raised
    /\ nodes = LoadedGraph(csv).nodes
    /\ edges = LoadedGraph(csv).edges
    /\ constraints = EntityConstraints
    /\ graphConfig = "none"
    /\ pc = "shell"
    /\ calls = <<>>
    /\ out = NoOutput

SpecRerun == InitRerun /\ [][Next]_vars

\* C21: a load that follows a load and an ontology run on the same files
\* refreshes the nodes: it leaves every entity label with as many nodes as
\* it had
C21_ReloadAfterOntologyKeepsCounts ==
    [][(pc = "create" /\ calls = <<"ontology", "load">>) =>
         \A l \in EntityLabels :
            Cardinality(Labelled(nodes', l)) = Cardinality(Labelled(nodes, l))]_vars
====
